---- MODULE Spec2Model ----
(***************************************************************************)
(* Model of the leveldb job dispatcher of bilt                              *)
(* (packages/jobs/leveldb-job-dispatcher/src/leveldb-job-dispatcher.js)     *)
(* and of its change detector (last-build info and changed files).          *)
(*                                                                         *)
(* Durable state: the key-value store (kvs) and the level-q job queue       *)
(* (queue).  Volatile state of the running process: the dispatchJob calls   *)
(* in flight, the queue listener and the jobs handed to the job-runner.     *)
(* A crash wipes the volatile state and keeps the two stores.               *)
(*                                                                         *)
(* Strings are sequences of character codes, so that the byte order of the  *)
(* keys, which decides what a range scan sees, is computed and not assumed. *)
(*                                                                         *)
(* The change detector has a specification of its own, DetSpec: a workspace *)
(* (files, .biltignore files, the repository, .bilt/last-build.json) is     *)
(* drawn from bounded sets and the exported functions are applied to it.    *)
(* File paths are sequences of path segments.                               *)
(***************************************************************************)
EXTENDS Integers, Sequences, FiniteSets, TLC

\* ---------------------------------------------------------------- bounds

\* Number of dispatchJob invocations (fresh ones and re-dispatches) in a run.
MaxDispatch == 2

\* Number of process crashes in a run.
MaxCrashes == 1

\* ---------------------------------------------------------------- strings

\* a <= b in byte order, the order of the bytewise key encoding (both stores
\* are opened with keyEncoding: bytewise).
RECURSIVE LexLeq(_, _)
LexLeq(a, b) ==
  IF a = <<>> THEN TRUE
  ELSE IF b = <<>> THEN FALSE
  ELSE IF Head(a) < Head(b) THEN TRUE
  ELSE IF Head(a) > Head(b) THEN FALSE
  ELSE LexLeq(Tail(a), Tail(b))

\* 'job:'
JobPrefix == <<106, 111, 98, 58>>

\* `job:${id}`
JobKey(id) == JobPrefix \o id

\* The job ids of the model: "a" and "za".
JobIds == {<<97>>, <<122, 97>>}

\* awakenedFrom is undefined (the empty string here) or names a job.
Undefined == <<>>

\* The dispatches callers make: "a" as the follow-up of a job "b", "za" on
\* its own.
DispatchInputs ==
  {[job |-> <<97>>, awakenedFrom |-> <<98>>],
   [job |-> <<122, 97>>, awakenedFrom |-> Undefined]}

\* prepareJobForRunning of @bildit/jobs: the normalized job; a job that has an
\* id keeps it.
prepareJobForRunning(job) == job

\* ---------------------------------------------------------------- state

VARIABLES
  up,        \* the dispatcher process is running
  crashes,   \* crashes so far
  kvs,       \* kv-store: key -> {job, awakenedFrom}; DOMAIN kvs = keys present
  queue,     \* job-queue: entries in key (push) order
  calls,     \* dispatchJob invocations, in invocation order
  listener,  \* queue.listen loop: "idle", "acking", "stopped"
  running,   \* invocation numbers of the jobs handed to runJob, promise pending
  failed,    \* invocation numbers of the jobs whose runJob promise rejected
  handed,    \* history: invocation numbers in hand-over order
  ended,     \* history: ids whose END_JOB event was processed
  last,      \* history: the last operation and what it returned
  repo,      \* change detector: the workspace directory and its repository
  build      \* change detector: what the exported functions returned

jobVars == <<up, crashes, kvs, queue, calls, listener, running, failed, handed, ended, last>>

vars == <<jobVars, repo, build>>

\* The JavaScript value undefined, where the other values are strings.
undefined == "undefined"

\* A directory that is no repository and holds no file.
NoRepo ==
  [fs |-> <<>>, sha |-> undefined, changed |-> <<>>, diff |-> <<>>,
   ignore |-> <<>>, cwd |-> <<>>, file |-> "ENOENT"]

\* No function of the change detector was called yet.
NoBuild == "none"

\* A mutant of KvsSet: the record is written under the id, without 'job:'.
KvsSetUnprefixed(store, key, value) ==
  LET id == SubSeq(key, Len(JobPrefix) + 1, Len(key))
  IN [k \in (DOMAIN store) \cup {id} |-> IF k = id THEN value ELSE store[k]]

\* kvStore.set
KvsSet(store, key, value) ==
  [k \in (DOMAIN store) \cup {key} |-> IF k = key THEN value ELSE store[k]]

\* A mutant of KvsDelete: nothing is deleted.
KvsDeleteNothing(store, key) == store

\* kvStore.delete
KvsDelete(store, key) ==
  [k \in (DOMAIN store) \ {key} |-> store[k]]

EmptyStore == [k \in {} |-> Undefined]

\* last names the operation only where a claim speaks of what it returned or
\* of the state right after it; any other step leaves Step.
Step == [op |-> "step", n |-> 0, id |-> Undefined, flag |-> FALSE, jobs |-> <<>>]

Op(name, n, id, flag, jobs) ==
  [op |-> name, n |-> n, id |-> id, flag |-> flag, jobs |-> jobs]

Init ==
  /\ up = TRUE
  /\ crashes = 0
  /\ kvs = EmptyStore
  /\ queue = <<>>
  /\ calls = <<>>
  /\ listener = "idle"
  /\ running = {}
  /\ failed = {}
  /\ handed = <<>>
  /\ ended = {}
  /\ last = Step
  /\ repo = NoRepo
  /\ build = NoBuild

\* ---------------------------------------------------------------- dispatchJob

\* A mutant of dispatchJobSteps: enqueue, then write.
dispatchJobStepsPushFirst == <<"push", "set">>

\* The two awaited steps of dispatchJob, in program order: kvStore.set, then
\* queue.push.
dispatchJobSteps == <<"set", "push">>

\* A dispatchJob invocation. pc is the index of the step it waits for (3: it
\* returned); alive is FALSE once a crash killed it. The rest is history:
\* wrote and pushed say which steps were done, pushIx is the rank of its push
\* among all pushes (0: none yet), after is the set of invocations that had
\* returned when this one was made, endedSinceWrite and endedSinceReturn say
\* whether an END_JOB event for the id was processed since the record write
\* and since the return.
NewCall(job, awakenedFrom, returned) ==
  [job |-> prepareJobForRunning(job), awakenedFrom |-> awakenedFrom,
   pc |-> 1, alive |-> TRUE, wrote |-> FALSE, pushed |-> FALSE,
   pushIx |-> 0, after |-> returned,
   endedSinceWrite |-> FALSE, endedSinceReturn |-> FALSE]

Returned(c) == c.pc > Len(dispatchJobSteps)

ReturnedCalls == {i \in 1..Len(calls) : Returned(calls[i])}

Pending(n) == n \in 1..Len(calls) /\ calls[n].alive /\ ~Returned(calls[n])

\* dispatchJob is invoked: prepareJobForRunning runs and kvStore.set is issued.
DispatchJob(job, awakenedFrom) ==
  /\ up
  /\ Len(calls) < MaxDispatch
  /\ calls' = Append(calls, NewCall(job, awakenedFrom, ReturnedCalls))
  /\ last' = Step
  /\ UNCHANGED <<repo, build, up, crashes, kvs, queue, listener, running, failed, handed, ended>>

\* await kvStore.set(`job:${preparedJob.id}`, {job: preparedJob, awakenedFrom})
DispatchJobSet(n) ==
  /\ up
  /\ Pending(n)
  /\ dispatchJobSteps[calls[n].pc] = "set"
  /\ kvs' = KvsSet(kvs, JobKey(calls[n].job),
                   [job |-> calls[n].job, awakenedFrom |-> calls[n].awakenedFrom])
  /\ calls' = [calls EXCEPT ![n].pc = @ + 1, ![n].wrote = TRUE]
  /\ last' = Step
  /\ UNCHANGED <<repo, build, up, crashes, queue, listener, running, failed, handed, ended>>

\* A mutant of QueuePush: the entry goes to the front of the queue.
QueuePushFront(q, entry) == <<entry>> \o q

\* queue.push: the entry gets the next monotonic key, behind every other.
QueuePush(q, entry) == Append(q, entry)

\* await p(queue.push)({job: preparedJob, awakenedFrom})
DispatchJobPush(n) ==
  /\ up
  /\ Pending(n)
  /\ dispatchJobSteps[calls[n].pc] = "push"
  /\ queue' = QueuePush(queue, [job |-> calls[n].job,
                                awakenedFrom |-> calls[n].awakenedFrom, n |-> n])
  /\ calls' = [calls EXCEPT ![n].pc = @ + 1, ![n].pushed = TRUE,
                            ![n].pushIx = 1 + Cardinality({i \in 1..Len(calls) : calls[i].pushed})]
  /\ last' = Step
  /\ UNCHANGED <<repo, build, up, crashes, kvs, listener, running, failed, handed, ended>>

\* ---------------------------------------------------------------- scans

\* createReadStream({gte: 'job:', lte: 'job:z'})
ScanGte == JobPrefix
ScanLte == JobPrefix \o <<122>>

InScanRange(key) == LexLeq(ScanGte, key) /\ LexLeq(key, ScanLte)

\* The keys of S in byte order.
RECURSIVE SortedKeys(_)
SortedKeys(S) ==
  IF S = {} THEN <<>>
  ELSE LET m == CHOOSE k \in S : \A o \in S : LexLeq(k, o)
       IN <<m>> \o SortedKeys(S \ {m})

\* The keys a read stream over the range emits, in order.
ScanKeys(store) == SortedKeys({k \in DOMAIN store : InScanRange(k)})

\* hasAbortedJobs: the promise takes the first settlement. resolve(false) is
\* evaluated as the argument of .on('end', ...) while the stream is set up,
\* before any 'data' event; the 'data' handler reads job.id of an undeclared
\* job and throws before it reaches resolve(true). (That throw, in a stream
\* callback, is uncaught: the process dies after the caller got its answer,
\* which Crash covers.)
hasAbortedJobs(store) ==
  LET atSetup == <<FALSE>>
      onData  == SelectSeq([i \in 1..Len(ScanKeys(store)) |-> TRUE], LAMBDA x : FALSE)
  IN Head(atSetup \o onData)

HasAbortedJobs ==
  /\ up
  /\ last' = Op("hasAbortedJobs", 0, Undefined, hasAbortedJobs(kvs), <<>>)
  /\ UNCHANGED <<repo, build, up, crashes, kvs, queue, calls, listener, running, failed, handed, ended>>

\* rerunAbortedJobs: every record the stream emits is pushed on abortedJobs
\* and dispatchJob is invoked for it, not awaited; the promise resolves on
\* 'end' with abortedJobs.
RerunCalls(store) ==
  LET keys == ScanKeys(store)
  IN [i \in 1..Len(keys) |->
        NewCall(store[keys[i]].job, store[keys[i]].awakenedFrom, ReturnedCalls)]

\* A mutant of RerunAbortedJobs: the scanned records are removed as they are
\* re-dispatched.
RerunAbortedJobsDraining ==
  /\ up
  /\ Len(calls) + Len(RerunCalls(kvs)) <= MaxDispatch
  /\ calls' = calls \o RerunCalls(kvs)
  /\ kvs' = [k \in {x \in DOMAIN kvs : ~InScanRange(x)} |-> kvs[k]]
  /\ last' = Op("rerunAbortedJobs", Len(calls), Undefined, FALSE,
                [i \in 1..Len(RerunCalls(kvs)) |-> RerunCalls(kvs)[i].job])
  /\ UNCHANGED <<repo, build, up, crashes, queue, listener, running, failed, handed, ended>>

RerunAbortedJobs ==
  /\ up
  /\ Len(calls) + Len(RerunCalls(kvs)) <= MaxDispatch
  /\ calls' = calls \o RerunCalls(kvs)
  /\ last' = Op("rerunAbortedJobs", Len(calls), Undefined, FALSE,
                [i \in 1..Len(RerunCalls(kvs)) |-> RerunCalls(kvs)[i].job])
  /\ UNCHANGED <<repo, build, up, crashes, kvs, queue, listener, running, failed, handed, ended>>

\* ---------------------------------------------------------------- listenAndExecuteJobs

\* The queue invokes the handler with the first entry; runJob is called, its
\* promise is not awaited, and next() is called.
ListenDeliver ==
  /\ up
  /\ listener = "idle"
  /\ queue # <<>>
  /\ running' = running \cup {Head(queue).n}
  /\ failed' = failed \ {Head(queue).n}
  /\ handed' = Append(handed, Head(queue).n)
  /\ listener' = "acking"
  /\ last' = Step
  /\ UNCHANGED <<repo, build, up, crashes, kvs, queue, calls, ended>>

\* next(): the delivered entry leaves the queue and the next one may come
\* (the contract of the queue: an entry is removed when it is acknowledged).
ListenAck ==
  /\ up
  /\ listener = "acking"
  /\ queue' = Tail(queue)
  /\ listener' = "idle"
  /\ last' = Step
  /\ UNCHANGED <<repo, build, up, crashes, kvs, calls, running, failed, handed, ended>>

\* The queue invokes the handler with an error: it is logged and rethrown, so
\* the async handler ends rejected, without calling next(). Nothing handles
\* the rejection: the process goes on with the listener stopped (or, on a
\* runtime that ends the process on an unhandled rejection, Crash follows).
ListenError ==
  /\ up
  /\ listener = "idle"
  /\ listener' = "stopped"
  /\ last' = Step
  /\ UNCHANGED <<repo, build, up, crashes, kvs, queue, calls, running, failed, handed, ended>>

\* The runJob call itself throws: the handler ends before next().
RunJobThrows ==
  /\ up
  /\ listener = "idle"
  /\ queue # <<>>
  /\ listener' = "stopped"
  /\ last' = Step
  /\ UNCHANGED <<repo, build, up, crashes, kvs, queue, calls, running, failed, handed, ended>>

\* The promise of runJob rejects: .catch logs the error.
RunnerRejects(n) ==
  /\ up
  /\ n \in running
  /\ running' = running \ {n}
  /\ failed' = failed \cup {n}
  /\ last' = Step
  /\ UNCHANGED <<repo, build, up, crashes, kvs, queue, calls, listener, handed, ended>>

\* ---------------------------------------------------------------- END_JOB

\* The END_JOB subscriber: kvStore.delete(`job:${job.id}`), then the
\* deleteJobState hook of the job type, which removes the job type's own
\* entries and no job:<id> record. The event is published for a job that was
\* handed to the runner, whether it succeeded or failed.
EndJob(n) ==
  /\ up
  /\ n \in running \cup failed
  /\ kvs' = KvsDelete(kvs, JobKey(calls[n].job))
  /\ running' = running \ {n}
  /\ failed' = failed \ {n}
  /\ ended' = ended \cup {calls[n].job}
  /\ calls' = [i \in 1..Len(calls) |->
                 IF calls[i].job = calls[n].job
                 THEN [calls[i] EXCEPT
                         !.endedSinceWrite = calls[i].wrote,
                         !.endedSinceReturn = Returned(calls[i])]
                 ELSE calls[i]]
  /\ last' = Op("END_JOB", n, calls[n].job, FALSE, <<>>)
  /\ UNCHANGED <<repo, build, up, crashes, queue, listener, handed>>

\* ---------------------------------------------------------------- process

\* The process dies: what lives in memory is gone, the two leveldb stores stay.
Crash ==
  /\ up
  /\ crashes < MaxCrashes
  /\ up' = FALSE
  /\ crashes' = crashes + 1
  /\ calls' = [i \in 1..Len(calls) |->
                 IF Returned(calls[i]) THEN calls[i]
                 ELSE [calls[i] EXCEPT !.alive = FALSE]]
  /\ listener' = "idle"
  /\ running' = {}
  /\ failed' = {}
  /\ last' = Op("crash", 0, Undefined, FALSE, <<>>)
  /\ UNCHANGED <<repo, build, kvs, queue, handed, ended>>

\* A fresh process over the same directory: initializeDb, then
\* listenAndExecuteJobs starts the one listener.
Restart ==
  /\ ~up
  /\ up' = TRUE
  /\ listener' = "idle"
  /\ last' = Op("restart", 0, Undefined, FALSE, <<>>)
  /\ UNCHANGED <<repo, build, crashes, kvs, queue, calls, running, failed, handed, ended>>

Next ==
  \/ \E in \in DispatchInputs : DispatchJob(in.job, in.awakenedFrom)
  \/ \E n \in 1..MaxDispatch : DispatchJobSet(n)
  \/ \E n \in 1..MaxDispatch : DispatchJobPush(n)
  \/ HasAbortedJobs
  \/ RerunAbortedJobs
  \/ ListenDeliver
  \/ ListenAck
  \/ ListenError
  \/ RunJobThrows
  \/ \E n \in 1..MaxDispatch : RunnerRejects(n)
  \/ \E n \in 1..MaxDispatch : EndJob(n)
  \/ Crash
  \/ Restart

Spec == Init /\ [][Next]_vars

\* What the event loop and the storage guarantee once a step is possible: an
\* issued put or push completes, the listener's read and next() complete, a
\* dead process is started again and recovery is run.
LiveSpec ==
  /\ Spec
  /\ \A n \in 1..MaxDispatch : WF_vars(DispatchJobSet(n))
  /\ \A n \in 1..MaxDispatch : WF_vars(DispatchJobPush(n))
  /\ WF_vars(ListenDeliver)
  /\ WF_vars(ListenAck)
  /\ WF_vars(Restart)
  /\ WF_vars(RerunAbortedJobs)

\* ================================================================ change detector

\* ---------------------------------------------------------------- paths

\* The directory the functions are called with, /repo, and another one.
Directory == <<"", "repo">>

OtherDirectory == <<"", "work">>

\* The files of the model, relative to the directory: a and d/b.
Paths == {<<"a">>, <<"d", "b">>}

Range(s) == {s[i] : i \in 1..Len(s)}

StartsWith(key, prefix) ==
  Len(key) >= Len(prefix) /\ SubSeq(key, 1, Len(prefix)) = prefix

IsAbsolute(file) == file # <<>> /\ file[1] = ""

\* path.resolve(base, file), base absolute.
PathResolve(base, file) == IF IsAbsolute(file) THEN file ELSE base \o file

RECURSIVE CommonLen(_, _)
CommonLen(a, b) ==
  IF a = <<>> \/ b = <<>> THEN 0
  ELSE IF Head(a) # Head(b) THEN 0
  ELSE 1 + CommonLen(Tail(a), Tail(b))

\* path.relative(from, to): both are resolved against the working directory
\* of the process, then the way from the one to the other is taken.
PathRelative(cwd, from, to) ==
  LET f == PathResolve(cwd, from)
      t == PathResolve(cwd, to)
      n == CommonLen(f, t)
  IN [i \in 1..(Len(f) - n) |-> ".."] \o SubSeq(t, n + 1, Len(t))

\* ---------------------------------------------------------------- hashes

\* The contents a file can have, and the hex md5 digest of each.
Contents == {"v1", "v2"}

md5Hash(content) == IF content = "v1" THEN "h1" ELSE "h2"

Deleted == "<deleted>"

\* In fs, a path that does not exist.
ENOENT == "ENOENT"

\* readHashOfFile(file), file absolute: the digest of the content; ENOENT on
\* the read stream resolves '<deleted>'.
readHashOfFile(fs, file) ==
  LET rel == SubSeq(file, Len(Directory) + 1, Len(file))
  IN IF StartsWith(file, Directory) /\ rel \in DOMAIN fs /\ fs[rel] # ENOENT
     THEN md5Hash(fs[rel])
     ELSE Deleted

\* ---------------------------------------------------------------- objects

\* An object that maps files to hashes is the sequence of its entries in
\* property order (the order of insertion, for keys that are file paths).
Keys(obj) == [i \in 1..Len(obj) |-> obj[i].file]

Has(obj, file) == \E i \in 1..Len(obj) : obj[i].file = file

\* obj[file]
Get(obj, file) ==
  IF Has(obj, file)
  THEN obj[CHOOSE i \in 1..Len(obj) : obj[i].file = file].hash
  ELSE undefined

\* Object.assign(obj, {[file]: hash})
Assign(obj, file, hash) ==
  IF Has(obj, file)
  THEN [i \in 1..Len(obj) |->
          IF obj[i].file = file THEN [file |-> file, hash |-> hash] ELSE obj[i]]
  ELSE Append(obj, [file |-> file, hash |-> hash])

\* !value
Not(value) == value = undefined \/ value = ""

\* readHashesOfFiles(directory, files): each file is hashed at
\* path.resolve(directory, file) and entered under
\* path.relative(directory, file).
RECURSIVE readHashesOfFilesInto(_, _, _, _)
readHashesOfFilesInto(obj, cwd, fs, files) ==
  IF files = <<>> THEN obj
  ELSE readHashesOfFilesInto(
         Assign(obj, PathRelative(cwd, Directory, Head(files)),
                readHashOfFile(fs, PathResolve(Directory, Head(files)))),
         cwd, fs, Tail(files))

readHashesOfFiles(cwd, fs, files) == readHashesOfFilesInto(<<>>, cwd, fs, files)

\* A mutant of determineChangedFiles: the files of the last build that are
\* gone from the current ones are left out.
determineChangedFilesNoDeleted(currentFiles, lastBuildFiles) ==
  Keys(SelectSeq(currentFiles,
                 LAMBDA e : Get(lastBuildFiles, e.file) # e.hash))

determineChangedFiles(currentFiles, lastBuildFiles) ==
  LET filesChangedFromLastBuild ==
        Keys(SelectSeq(currentFiles,
                       LAMBDA e : \/ Not(Get(lastBuildFiles, e.file))
                                  \/ Get(lastBuildFiles, e.file) # e.hash))
      filesDeletedFromLastBuild ==
        SelectSeq(Keys(lastBuildFiles), LAMBDA file : Not(Get(currentFiles, file)))
  IN filesChangedFromLastBuild \o filesDeletedFromLastBuild

determineWhichFilesChangedSinceLastBuild(cwd, fs, changedFilesInWorkspace) ==
  LET newHashes == readHashesOfFiles(cwd, fs, Keys(changedFilesInWorkspace))
  IN determineChangedFiles(newHashes, changedFilesInWorkspace)

\* ---------------------------------------------------------------- .biltignore

\* directoriesBetween(directory, file): the directory and the directories
\* below it down to the one of the file (the directory comes twice for a file
\* that lies in it: ''.split('/') is ['']).
directoriesBetween(file) ==
  LET missingSegments == Len(file) - 1 - Len(Directory)
  IN IF missingSegments = 0 THEN <<Directory, Directory>>
     ELSE [i \in 1..(missingSegments + 1) |-> SubSeq(file, 1, Len(Directory) + i - 1)]

\* findbiltIgnorePattern: the patterns of the .biltignore files of these
\* directories, merged; a directory without the file adds none.
findbiltIgnorePattern(ignore, file) ==
  UNION {ignore[dir] : dir \in Range(directoriesBetween(file)) \cap DOMAIN ignore}

\* ignoreMask.ignores(file), for patterns that are plain names: a pattern
\* matches the file or a directory above it.
Ignores(ignoreMask, file) ==
  \E i \in 1..Len(file) : file[i] \in ignoreMask

\* A mutant of filterBybiltIgnore: only the .biltignore of the directory
\* itself is read.
filterBybiltIgnoreRootOnly(ignore, files) ==
  SelectSeq(files, LAMBDA file : ~Ignores(ignore[Directory], file))

filterBybiltIgnore(ignore, files) ==
  SelectSeq(files, LAMBDA file : ~Ignores(findbiltIgnorePattern(ignore, file), file))

\* ---------------------------------------------------------------- last-build.json

\* A RepoBuildInfo.
Info(commit, changedFilesInWorkspace) ==
  [commit |-> commit, changedFilesInWorkspace |-> changedFilesInWorkspace]

EmptyInfo == Info(undefined, <<>>)

\* A mutant of Stringify: a commit that is undefined is written as null.
StringifyNull(info) ==
  <<[key |-> "commit",
     value |-> IF info.commit = undefined THEN "null" ELSE info.commit,
     object |-> <<>>],
    [key |-> "changedFilesInWorkspace", value |-> "",
     object |-> info.changedFilesInWorkspace]>>

\* JSON.stringify(currentRepoInfo, undefined, 2): the members of the record
\* in order; a member whose value is undefined is left out.
Stringify(info) ==
  (IF info.commit = undefined THEN <<>>
   ELSE <<[key |-> "commit", value |-> info.commit, object |-> <<>>]>>)
  \o <<[key |-> "changedFilesInWorkspace", value |-> "",
        object |-> info.changedFilesInWorkspace]>>

\* parsed[key] of the object JSON.parse returned.
Member(members, key) ==
  IF \E i \in 1..Len(members) : members[i].key = key
  THEN members[CHOOSE i \in 1..Len(members) : members[i].key = key]
  ELSE [key |-> key, value |-> undefined, object |-> <<>>]

\* The states of .bilt/last-build.json: it cannot be read (err is the code of
\* the error, ENOENT when it does not exist), or it holds a text that is
\* JSON (wellFormed, with its members) or is not.
FileError(code) == [err |-> code, wellFormed |-> FALSE, members |-> <<>>]

FileMalformed == [err |-> "", wellFormed |-> FALSE, members |-> <<>>]

FileText(members) == [err |-> "", wellFormed |-> TRUE, members |-> members]

\* What a call of readLastBuildInfo comes to.
Outcome(outcome, info) == [outcome |-> outcome, info |-> info]

\* A mutant of readLastBuildInfo: a text that does not parse is thrown on.
readLastBuildInfoStrict(file) ==
  IF file.err = ENOENT THEN Outcome("undefined", EmptyInfo)
  ELSE IF file.err # "" \/ ~file.wellFormed THEN Outcome("throws", EmptyInfo)
  ELSE Outcome("record",
               Info(Member(file.members, "commit").value,
                    Member(file.members, "changedFilesInWorkspace").object))

readLastBuildInfo(file) ==
  IF file.err = "ENOEXIST" THEN Outcome("undefined", EmptyInfo)
  ELSE IF file.err = ENOENT THEN Outcome("undefined", EmptyInfo)
  ELSE IF file.err # "" THEN Outcome("throws", EmptyInfo)
  ELSE IF ~file.wellFormed THEN Outcome("undefined", EmptyInfo)
  ELSE Outcome("record",
               Info(Member(file.members, "commit").value,
                    Member(file.members, "changedFilesInWorkspace").object))

\* saveLastBuildInfo: the file holds the text of the record.
saveLastBuildInfo(currentRepoInfo) == FileText(Stringify(currentRepoInfo))

\* ---------------------------------------------------------------- exported functions

\* findChangesInCurrentRepo: the sha of the repository and the hashes of the
\* files git reports as changed (none without a sha), less the ignored ones.
findChangesInCurrentRepo(r) ==
  Info(r.sha,
       readHashesOfFiles(r.cwd, r.fs,
         filterBybiltIgnore(r.ignore, IF Not(r.sha) THEN <<>> ELSE r.changed)))

\* filesChangedFromCommitToCommit: the lines of git diff-tree --name-only -r
\* fromCommit toCommit; the command fails when a commit is undefined.
filesChangedFromCommitToCommit(r, fromCommit, toCommit) ==
  IF fromCommit = undefined \/ toCommit = undefined
  THEN [threw |-> TRUE, files |-> <<>>]
  ELSE [threw |-> FALSE, files |-> r.diff]

\* The elements of a Set in insertion order: each value once.
RECURSIVE SetOf(_)
SetOf(s) ==
  IF s = <<>> THEN <<>>
  ELSE LET init == SetOf(SubSeq(s, 1, Len(s) - 1))
       IN IF s[Len(s)] \in Range(init) THEN init ELSE Append(init, s[Len(s)])

\* union(a, b) of set-union.
union(a, b) == SetOf(a \o b)

\* What a call of calculateFilesChangedSinceLastBuild comes to.
Files(files) == [outcome |-> "files", files |-> files]

Throws == [outcome |-> "throws", files |-> <<>>]

\* A mutant of calculateFilesChangedSinceLastBuild: the slow path leaves out
\* the files of the diff between the commits.
calculateFilesChangedSinceLastBuildNoDiff(r, lastBuildInfo, currentRepoInfo) ==
  IF lastBuildInfo.commit = currentRepoInfo.commit
  THEN Files(determineChangedFiles(currentRepoInfo.changedFilesInWorkspace,
                                   lastBuildInfo.changedFilesInWorkspace))
  ELSE Files(union(SetOf(determineWhichFilesChangedSinceLastBuild(
                           r.cwd, r.fs, lastBuildInfo.changedFilesInWorkspace)),
                   SetOf(Keys(currentRepoInfo.changedFilesInWorkspace))))

calculateFilesChangedSinceLastBuild(r, lastBuildInfo, currentRepoInfo) ==
  IF lastBuildInfo.commit = currentRepoInfo.commit
  THEN Files(determineChangedFiles(currentRepoInfo.changedFilesInWorkspace,
                                   lastBuildInfo.changedFilesInWorkspace))
  ELSE LET filesStillChangedFromLastBuild ==
             determineWhichFilesChangedSinceLastBuild(
               r.cwd, r.fs, lastBuildInfo.changedFilesInWorkspace)
           fromCommitToCommit ==
             filesChangedFromCommitToCommit(r, lastBuildInfo.commit,
                                            currentRepoInfo.commit)
       IN IF fromCommitToCommit.threw THEN Throws
          ELSE Files(union(union(SetOf(filesStillChangedFromLastBuild),
                                 SetOf(Keys(currentRepoInfo.changedFilesInWorkspace))),
                           SetOf(fromCommitToCommit.files)))

\* ---------------------------------------------------------------- workspaces

Commits == {"c1", "c2"}

\* The lists of distinct files.
PathLists ==
  {s \in UNION {[1..n -> Paths] : n \in 0..Cardinality(Paths)} :
     \A i \in 1..Len(s), j \in 1..Len(s) : s[i] = s[j] => i = j}

\* The objects that map distinct files to the given hashes.
HashMaps(hashes) ==
  {m \in UNION {[1..n -> [file : Paths, hash : hashes]] : n \in 0..Cardinality(Paths)} :
     \A i \in 1..Len(m), j \in 1..Len(m) : m[i].file = m[j].file => i = j}

\* The records an earlier build saved: without a commit no file was listed.
RepoBuildInfos ==
  {Info(undefined, <<>>)}
  \cup {Info(c, m) : c \in Commits, m \in HashMaps({"h1", Deleted})}

\* What .bilt/last-build.json can be when a build starts.
LastBuildFiles ==
  {FileError(ENOENT), FileError("EACCES"), FileMalformed}
  \cup {saveLastBuildInfo(info) : info \in RepoBuildInfos}

\* The .biltignore files: none; b in the directory; b in d; a in d.
BiltIgnores ==
  {[dir \in {Directory, Directory \o <<"d">>} |-> {}],
   [dir \in {Directory, Directory \o <<"d">>} |->
      IF dir = Directory THEN {"b"} ELSE {}],
   [dir \in {Directory, Directory \o <<"d">>} |->
      IF dir = Directory THEN {} ELSE {"b"}],
   [dir \in {Directory, Directory \o <<"d">>} |->
      IF dir = Directory THEN {} ELSE {"a"}]}

\* What git diff-tree lists between two commits, in path order.
DiffLists == {<<>>, <<<<"a">>>>, <<<<"d", "b">>>>, <<<<"a">>, <<"d", "b">>>>}

\* The commit of the last build when the file holds a record with one.
LastCommit(file) ==
  IF file.err = "" /\ file.wellFormed
  THEN Member(file.members, "commit").value
  ELSE undefined

\* The workspaces a build can find: git lists changed files (absolute paths)
\* only in a repository, and commits have a diff only when the last build
\* and the repository have two different ones.
Repos ==
  {r \in [fs : [Paths -> Contents \cup {ENOENT}],
          sha : Commits \cup {undefined},
          changed : {[i \in 1..Len(l) |-> Directory \o l[i]] : l \in PathLists},
          diff : DiffLists,
          ignore : BiltIgnores,
          cwd : {Directory, OtherDirectory},
          file : LastBuildFiles] :
     /\ r.sha = undefined => r.changed = <<>>
     /\ (r.sha = undefined \/ LastCommit(r.file) \in {undefined, r.sha})
          => r.diff = <<>>}

NoResult == [outcome |-> "none", files |-> <<>>, lastBuildInfo |-> EmptyInfo]

DetInit ==
  /\ up = FALSE
  /\ crashes = 0
  /\ kvs = EmptyStore
  /\ queue = <<>>
  /\ calls = <<>>
  /\ listener = "idle"
  /\ running = {}
  /\ failed = {}
  /\ handed = <<>>
  /\ ended = {}
  /\ last = Step
  /\ repo \in Repos
  /\ build = [current |-> [called |-> FALSE, info |-> EmptyInfo],
              lastBuildInfo |-> Outcome("none", EmptyInfo),
              result |-> NoResult]

FindChangesInCurrentRepo ==
  /\ build' = [build EXCEPT
                 !.current = [called |-> TRUE, info |-> findChangesInCurrentRepo(repo)]]
  /\ UNCHANGED <<jobVars, repo>>

ReadLastBuildInfo ==
  /\ build' = [build EXCEPT !.lastBuildInfo = readLastBuildInfo(repo.file)]
  /\ UNCHANGED <<jobVars, repo>>

\* calculateFilesChangedSinceLastBuild(directory, lastBuildInfo,
\* currentRepoInfo) with what the two other functions returned.
CalculateFilesChangedSinceLastBuild ==
  /\ build.current.called
  /\ build.lastBuildInfo.outcome = "record"
  /\ build' = [build EXCEPT
                 !.result =
                   [outcome |-> calculateFilesChangedSinceLastBuild(
                                  repo, build.lastBuildInfo.info,
                                  build.current.info).outcome,
                    files |-> calculateFilesChangedSinceLastBuild(
                                repo, build.lastBuildInfo.info,
                                build.current.info).files,
                    lastBuildInfo |-> build.lastBuildInfo.info]]
  /\ UNCHANGED <<jobVars, repo>>

SaveLastBuildInfo ==
  /\ build.current.called
  /\ repo' = [repo EXCEPT !.file = saveLastBuildInfo(build.current.info)]
  /\ UNCHANGED <<jobVars, build>>

DetNext ==
  \/ FindChangesInCurrentRepo
  \/ ReadLastBuildInfo
  \/ CalculateFilesChangedSinceLastBuild
  \/ SaveLastBuildInfo

DetSpec == DetInit /\ [][DetNext]_vars

\* ---------------------------------------------------------------- claims

Calls == 1..Len(calls)

HasRecord(id) == JobKey(id) \in DOMAIN kvs

InQueue(n) == \E i \in 1..Len(queue) : queue[i].n = n

WasHanded(n) == \E p \in 1..Len(handed) : handed[p] = n

\* A crash killed the invocation between its record write and its push.
KilledBetweenSteps(n) == ~calls[n].alive /\ calls[n].wrote /\ ~calls[n].pushed

C2_RecordWhileOutstanding ==
  \A n \in Calls :
    (Returned(calls[n]) /\ ~calls[n].endedSinceReturn) => HasRecord(calls[n].job)

\* C2, amended: after a dispatchJob call returned, the store holds the record
\* as long as no END_JOB event for the id was processed since the call wrote
\* the record; this holds for repeated dispatches of an id, for re-dispatches
\* and across crashes and restarts.
C2_RecordUntilEndJob ==
  \A n \in Calls :
    (Returned(calls[n]) /\ ~calls[n].endedSinceWrite) => HasRecord(calls[n].job)

\* After a crash the id has been dispatched a second time, both calls returned,
\* no END_JOB event came and the record is there.
C2_Witness ==
  /\ up
  /\ crashes > 0
  /\ \E n \in Calls, m \in Calls :
       /\ n < m
       /\ calls[n].job = calls[m].job
       /\ Returned(calls[n]) /\ Returned(calls[m])
       /\ ~calls[m].endedSinceWrite
       /\ HasRecord(calls[m].job)

\* C3: at-least-once execution: every job whose dispatchJob returned is
\* eventually handed to the job-runner.
C3_AtLeastOnce ==
  \A n \in 1..MaxDispatch :
    [](((n \in Calls) /\ Returned(calls[n])) => <>WasHanded(n))

\* C4: when dispatchJob(j) returned, the process crashed before j was
\* delivered and rerunAbortedJobs is the first call on the fresh process, that
\* call invokes dispatchJob exactly once for j, with the same job and
\* awakenedFrom, and for no id without a record.
C4_RerunRedispatchesOnce ==
  [][(last.op = "restart" /\ last'.op = "rerunAbortedJobs") =>
       LET new == (Len(calls) + 1)..Len(calls')
       IN /\ \A n \in Calls :
               (Returned(calls[n]) /\ ~WasHanded(n) /\ HasRecord(calls[n].job))
               => Cardinality({i \in new :
                                 /\ calls'[i].job = calls[n].job
                                 /\ calls'[i].awakenedFrom = calls[n].awakenedFrom}) = 1
          /\ \A i \in new : HasRecord(calls'[i].job)]_vars

\* C5: hasAbortedJobs() returns true exactly when the store holds a record
\* job:<id>.
C5_HasAbortedJobsIffRecord ==
  last.op = "hasAbortedJobs" => (last.flag <=> \E id \in JobIds : HasRecord(id))

\* C6: right after an END_JOB event was processed the record of its job is
\* gone; and when no record is left after it, hasAbortedJobs() returns false
\* and rerunAbortedJobs() returns the empty list and invokes no dispatchJob.
C6_RecordGoneAfterEndJob ==
  /\ last.op = "END_JOB" => ~HasRecord(last.id)
  /\ (last.op = "hasAbortedJobs" /\ ended # {} /\ DOMAIN kvs = {}) => ~last.flag
  /\ (last.op = "rerunAbortedJobs" /\ ended # {} /\ DOMAIN kvs = {})
       => (last.jobs = <<>> /\ Len(calls) = last.n)

\* The only outstanding job has ended and rerunAbortedJobs was called next.
C6_Witness ==
  /\ last.op = "rerunAbortedJobs"
  /\ ended # {}
  /\ DOMAIN kvs = {}
  /\ \A n \in Calls : Returned(calls[n])

\* C7: only the END_JOB handler removes a record: a step that removes the
\* record of a key is the processing of END_JOB for that id, and a record that
\* was written and is absent had its END_JOB processed.
C7_OnlyEndJobRemoves ==
  /\ [][\A k \in DOMAIN kvs :
          k \notin DOMAIN kvs' => (last'.op = "END_JOB" /\ k = JobKey(last'.id))]_vars
  /\ [](\A n \in Calls :
          (calls[n].wrote /\ ~HasRecord(calls[n].job)) => calls[n].job \in ended)

\* After a crash and a restart a record that was written is gone, and its
\* END_JOB was processed.
C7_Witness ==
  /\ crashes > 0
  /\ \E n \in Calls :
       calls[n].wrote /\ ~HasRecord(calls[n].job) /\ calls[n].job \in ended

\* C8, as claimed: jobs are handed to the runner in the order their
\* dispatchJob calls were invoked, overlapping calls included.
C8_InvocationOrder ==
  \A p \in 1..Len(handed), q \in 1..Len(handed) :
    p < q => handed[p] <= handed[q]

\* C8, amended: entries are handed over in the order they were pushed, so a
\* call that returned before another was invoked is handed over before it;
\* and one at a time: a step hands over one entry, the first of the queue,
\* only while the listener is idle, and the listener is not idle again before
\* next() took effect.
C8_PushOrder ==
  /\ [](\A p \in 1..Len(handed), q \in 1..Len(handed) :
          p < q => calls[handed[p]].pushIx <= calls[handed[q]].pushIx)
  /\ [](\A q \in 1..Len(handed) :
          \A i \in calls[handed[q]].after : \E p \in 1..q : handed[p] = i)
  /\ [][handed' # handed =>
          /\ listener = "idle" /\ listener' # "idle"
          /\ queue # <<>>
          /\ handed' = Append(handed, Head(queue).n)]_vars

\* Two calls, the second invoked after the first returned, were both handed
\* over.
C8_Witness ==
  /\ Len(handed) >= 2
  /\ handed[1] # handed[2]
  /\ handed[1] \in calls[handed[2]].after

\* C9: without a further crash every queue entry is eventually delivered and
\* acknowledged.
C9_EveryEntryDelivered ==
  \A n \in 1..MaxDispatch :
    []((InQueue(n) /\ crashes = MaxCrashes) => <>(~InQueue(n)))

\* C10: a failure in the queue handler never stops the loop.
C10_LoopNeverStops == up => listener # "stopped"

\* The queue entries and the records of a job id.
EntriesOf(id) == {i \in 1..Len(queue) : queue[i].job = id}

RecordsOf(id) == {k \in DOMAIN kvs : kvs[k].job = id}

ReturnedCallsOf(id) == {n \in ReturnedCalls : calls[n].job = id}

\* The part of C11 that speaks of the stores: as long as none of the
\* dispatchJob calls of an id was handed to the runner, the queue holds one
\* entry for each of them that returned and the store holds exactly one
\* record for the id; an entry leaves the queue only after it was handed to
\* the runner; and the store never holds two records for an id.
NoDeduplication ==
  /\ \A id \in JobIds :
       (\A n \in ReturnedCallsOf(id) : ~WasHanded(n)) =>
         /\ Cardinality(EntriesOf(id)) = Cardinality(ReturnedCallsOf(id))
         /\ ReturnedCallsOf(id) # {} => Cardinality(RecordsOf(id)) = 1
  /\ \A n \in ReturnedCalls : InQueue(n) \/ WasHanded(n)
  /\ \A id \in JobIds : Cardinality(RecordsOf(id)) <= 1

\* C11: no de-duplication: dispatchJob calls with the same job id that
\* returned before any of them was delivered leave one queue entry each and
\* exactly one record, the store never holds two records for an id, and all
\* the entries are delivered to the runner.
C11_NoDeduplication ==
  /\ []NoDeduplication
  /\ \A n \in 1..MaxDispatch, m \in 1..MaxDispatch :
       []((/\ n < m /\ m \in Calls
           /\ calls[n].job = calls[m].job
           /\ Returned(calls[n]) /\ Returned(calls[m])
           /\ ~WasHanded(n) /\ ~WasHanded(m))
          => <>(WasHanded(n) /\ WasHanded(m)))

Visited(store) == {ScanKeys(store)[i] : i \in 1..Len(ScanKeys(store))}

\* C19: the recovery scan enumerates exactly the job-state records: the
\* record job:<id> of every job id is among the keys the scan visits, every
\* visited key starts with 'job:', rerunAbortedJobs returns the job of every
\* stored record and hasAbortedJobs counts it.
C19_ScanEnumeratesRecords ==
  /\ \A id \in JobIds : HasRecord(id) => JobKey(id) \in Visited(kvs)
  /\ \A k \in Visited(kvs) : StartsWith(k, JobPrefix)
  /\ last.op = "rerunAbortedJobs" =>
       \A id \in JobIds :
         HasRecord(id) => \E i \in 1..Len(last.jobs) : last.jobs[i] = id
  /\ last.op = "hasAbortedJobs" =>
       (last.flag <=> \E k \in DOMAIN kvs : StartsWith(k, JobPrefix))

\* C20: when the promise of rerunAbortedJobs resolves, every dispatchJob call
\* it made has written its record and pushed its queue entry.
C20_RerunResolvesAfterDispatch ==
  last.op = "rerunAbortedJobs" =>
    \A i \in (last.n + 1)..Len(calls) : calls[i].wrote /\ calls[i].pushed

\* ---------------------------------------------------------------- claims (change detector)

CurrentFiles == build.current.info.changedFilesInWorkspace

\* The arguments of the last calculateFilesChangedSinceLastBuild call.
LastFiles == build.result.lastBuildInfo.changedFilesInWorkspace

FastPath == build.result.lastBuildInfo.commit = build.current.info.commit

NoDuplicates(s) == \A i \in 1..Len(s), j \in 1..Len(s) : s[i] = s[j] => i = j

\* The hash of a file of the directory, read now.
HashNow(file) == readHashOfFile(repo.fs, Directory \o file)

C13_SlowPathUnion ==
  (build.result.outcome # "none" /\ ~FastPath) =>
    /\ build.result.outcome = "files"
    /\ NoDuplicates(build.result.files)
    /\ Range(build.result.files) =
         {f \in Range(Keys(LastFiles)) : HashNow(f) # Get(LastFiles, f)}
         \cup Range(Keys(CurrentFiles))
         \cup Range(repo.diff)

\* C14: on the slow path a path of the last build that the diff between the
\* commits does not list is in the result only if its hash read now differs
\* from the recorded one.
C14_SlowPathMinimal ==
  (build.result.outcome = "files" /\ ~FastPath) =>
    \A x \in Range(Keys(LastFiles)) :
      (x \notin Range(repo.diff) /\ x \in Range(build.result.files))
        => HashNow(x) # Get(LastFiles, x)

\* C15: after saveLastBuildInfo(r), readLastBuildInfo returns r, commit
\* undefined included; and calculateFilesChangedSinceLastBuild of a last
\* record and a current one with the same commit and the same hashes is the
\* empty sequence.
C15_NoChangeIsEmpty ==
  /\ (build.current.called /\ repo.file = saveLastBuildInfo(build.current.info)) =>
       readLastBuildInfo(repo.file) = Outcome("record", build.current.info)
  /\ (build.result.outcome # "none"
        /\ build.result.lastBuildInfo.commit = build.current.info.commit
        /\ Range(LastFiles) = Range(CurrentFiles)) =>
       build.result = [outcome |-> "files", files |-> <<>>,
                       lastBuildInfo |-> build.result.lastBuildInfo]

\* The current record, with a changed file, was saved and read back, and the
\* changes against it were calculated.
C15_Witness ==
  /\ build.current.called
  /\ CurrentFiles # <<>>
  /\ repo.file = saveLastBuildInfo(build.current.info)
  /\ build.lastBuildInfo = Outcome("record", build.current.info)
  /\ build.result.lastBuildInfo = build.current.info
  /\ build.result.outcome = "files"
  /\ build.result.files = <<>>

\* The files a .biltignore file between the directory and the file matches.
IgnoredFiles ==
  {f \in Paths :
     Ignores(findbiltIgnorePattern(repo.ignore, Directory \o f), Directory \o f)}

\* C16: an ignored file is in no reported change set: not in
\* changedFilesInWorkspace of findChangesInCurrentRepo, not in the result of
\* calculateFilesChangedSinceLastBuild.
C16_IgnoredNeverReported ==
  /\ build.current.called => \A f \in IgnoredFiles : ~Has(CurrentFiles, f)
  /\ build.result.outcome = "files" =>
       \A f \in IgnoredFiles : f \notin Range(build.result.files)

\* C17: readLastBuildInfo returns undefined when the file does not exist or
\* does not parse, throws on any other read failure and returns the record
\* that was saved from a file saveLastBuildInfo wrote.
C17_ReadLastBuildInfo ==
  LET out == readLastBuildInfo(repo.file)
  IN /\ (repo.file.err = ENOENT \/ (repo.file.err = "" /\ ~repo.file.wellFormed))
          => out = Outcome("undefined", EmptyInfo)
     /\ repo.file.err \notin {"", ENOENT} => out.outcome = "throws"
     /\ \A info \in RepoBuildInfos \cup {build.current.info} :
          repo.file = saveLastBuildInfo(info) => out = Outcome("record", info)

\* readLastBuildInfo was called on a file that does not parse.
C17_Witness ==
  /\ repo.file = FileMalformed
  /\ build.lastBuildInfo = Outcome("undefined", EmptyInfo)

\* C18: the hash of a path that does not exist is '<deleted>'; a file the
\* last build recorded with a content hash and that is gone is in the next
\* changed set; a file recorded as '<deleted>' that is still gone is not
\* reported by the comparison of the hashes.
C18_DeletedStaysVisible ==
  /\ \A f \in Paths : repo.fs[f] = ENOENT => HashNow(f) = Deleted
  /\ build.result.outcome = "files" =>
       \A x \in Range(Keys(LastFiles)) :
         (Get(LastFiles, x) # Deleted /\ repo.fs[x] = ENOENT)
           => x \in Range(build.result.files)
  /\ build.result.outcome # "none" =>
       \A x \in Range(Keys(LastFiles)) :
         (Get(LastFiles, x) = Deleted /\ repo.fs[x] = ENOENT) =>
           IF FastPath
           THEN Has(CurrentFiles, x) =>
                  x \notin Range(determineChangedFiles(CurrentFiles, LastFiles))
           ELSE x \notin Range(determineWhichFilesChangedSinceLastBuild(
                                 repo.cwd, repo.fs, LastFiles))

====
